---- MODULE Spec2Model ----
(***************************************************************************)
(* Admin console of the LEHTORE photo site (src/js/admin.js): the session  *)
(* state object, the staging handlers (autoSave/applyDraft, revert,        *)
(* markForDelete), startAdmin (load / Refresh) and publishToGitHub with    *)
(* the GitHub Contents API helpers it awaits.  Awaited remote calls are    *)
(* step boundaries: other handlers may run between two steps of an async   *)
(* function, never inside one.  Awaits whose interleavings change nothing  *)
(* the handlers read are folded into the neighbouring step.                *)
(***************************************************************************)
EXTENDS Integers, Sequences, FiniteSets, TLC

(* ------------------------------------------------------------------ *)
(* Bounds of the exploration                                            *)
(* ------------------------------------------------------------------ *)
\* number of events from outside explored in one run: clicks and inputs of
\* the user (select, type, revert, delete, publish, refresh) and writes to
\* photos.json by somebody else
MaxEvents == 6

(* ------------------------------------------------------------------ *)
(* Data                                                                 *)
(* ------------------------------------------------------------------ *)
\* A path or URL is a sequence of text chunks; the first chunk holds the
\* first four characters, which is all that startsWith('http') looks at.
HttpPrefix == <<"http">>
SrcA   == <<"phot", "os/uploads/a.jpg">>
ThumbA == <<"http", "s://cdn.example/a-thumb.jpg">>
SrcB   == <<"phot", "os/uploads/b.jpg">>
ThumbB == <<"phot", "os/thumbs/b.jpg">>

\* A tag and the text typed into the tag field are sequences of characters.
TagT == <<"t">>

PhotoA == [id |-> "a", src |-> SrcA, thumb |-> ThumbA, title |-> "Old",
           tags |-> <<>>]
PhotoB == [id |-> "b", src |-> SrcB, thumb |-> ThumbB, title |-> "Old",
           tags |-> <<TagT>>]

\* the manifest in the repository when the session starts, and the files
InitialManifest == <<PhotoA, PhotoB>>
InitialFiles    == {SrcA, SrcB, ThumbB}

\* The content of photos.json is modelled by the photos array of the
\* document it encodes.  Two contents are no such document: text that is
\* not JSON, and JSON without a photos member.
MalformedDoc     == <<[malformed |-> TRUE]>>
DocWithoutPhotos == <<[nophotos |-> TRUE]>>

\* what the user can type into the title field
UserTitles == {"New"}
\* what the user can type into the tag field
UserRawTags == {<<" ", "T">>, <<" ">>}
\* texts typed into the tag field when the tag handlers are explored on
\* their own
RawTagInputs ==
    {<<>>, <<" ">>, <<" ", " ">>, <<"t">>, <<" ", "T">>, <<"T", " ", "t">>,
     <<"T", " ", " ", "T">>, <<" ", "t", " ", "T", " ">>}
\* the title an external writer gives a record
ExternalTitle == "Ext"

\* the two texts of #publish-btn
LabelIdle       == "Publish to GitHub"
LabelPublishing == "Publishing..."

\* what #edit-panel shows when it is not the edit form of a photo
NoForm == {"empty", "deleted", "settings"}

Null     == "null"
NoSha    == <<"null">>
NotFound == [notfound |-> TRUE]
EmptyObj == [k \in {} |-> k]

(* ------------------------------------------------------------------ *)
(* Pure helpers of admin.js                                             *)
(* ------------------------------------------------------------------ *)
StartsWith(p, prefix) ==
    /\ Len(p) >= Len(prefix)
    /\ SubSeq(p, 1, Len(prefix)) = prefix

\* const isLocal = p => p && !p.startsWith('http')
IsLocal_AnyPath(p) == p # <<>>

IsLocal(p) == p # <<>> /\ ~StartsWith(p, HttpPrefix)

\* the blob sha the Contents API reports for a content: a hash of it
ShaOf(content) == <<"sha", content>>

\* state.photos.find(p => p.id === id)
RECURSIVE FindFrom(_, _, _)
FindFrom(list, id, i) ==
    IF i > Len(list) THEN NotFound
    ELSE IF list[i].id = id THEN list[i]
    ELSE FindFrom(list, id, i + 1)

Find(list, id) == FindFrom(list, id, 1)

\* state.photos.filter(p => p.id !== id)
Without_Keeps(list, id) == list

Without(list, id) == SelectSeq(list, LAMBDA r : r.id # id)

\* state.dirty[id] || state.photos.find(p => p.id === id) || null
GetPhoto(ph, d, id) ==
    IF id \in DOMAIN d THEN d[id] ELSE Find(ph, id)

\* { ...base, ...partial }
Spread(base, partial) ==
    [f \in DOMAIN base \cup DOMAIN partial |->
        IF f \in DOMAIN partial THEN partial[f] ELSE base[f]]

\* applyDraft: state.dirty[id] = { ...base, ...partial } with
\* base = state.dirty[id] || state.photos.find(...) || {}
ApplyDraft_ReplacesOverlay(ph, d, id, partial) ==
    LET found == IF id \in DOMAIN d THEN d[id] ELSE Find(ph, id)
        base  == IF found = NotFound THEN EmptyObj ELSE found
    IN  [k \in {id} |->
            [f \in DOMAIN base \cup DOMAIN partial |->
                IF f \in DOMAIN partial THEN partial[f] ELSE base[f]]]

ApplyDraft(ph, d, id, partial) ==
    LET found == GetPhoto(ph, d, id)
        base  == IF found = NotFound THEN EmptyObj ELSE found
    IN  [k \in DOMAIN d \cup {id} |->
            IF k = id THEN Spread(base, partial) ELSE d[k]]

\* delete state.dirty[id]
DeleteKey_Keeps(d, id) == d

DeleteKey(d, id) == [k \in DOMAIN d \ {id} |-> d[k]]

\* Object.keys(state.dirty).length + state.pendingDeletes.length
PendingChangeCount_EditsOnly(d, pd) == Cardinality(DOMAIN d)

PendingChangeCount(d, pd) == Cardinality(DOMAIN d) + Len(pd)

\* raw.trim().toLowerCase().replace(/\s+/g, '-')
IsSpace(c) == c = " "

RECURSIVE TrimStart(_)
TrimStart(s) ==
    IF s # <<>> /\ IsSpace(Head(s)) THEN TrimStart(Tail(s)) ELSE s

RECURSIVE TrimEnd(_)
TrimEnd(s) ==
    IF s # <<>> /\ IsSpace(s[Len(s)]) THEN TrimEnd(SubSeq(s, 1, Len(s) - 1))
    ELSE s

Trim(s) == TrimEnd(TrimStart(s))

LowerChar(c) == IF c = "T" THEN "t" ELSE c

ToLowerCase(s) == [i \in 1..Len(s) |-> LowerChar(s[i])]

\* every maximal run of white space becomes one hyphen
Hyphenate_EachSpace(s) ==
    [i \in 1..Len(s) |-> IF IsSpace(s[i]) THEN "-" ELSE s[i]]

RECURSIVE Hyphenate(_)
Hyphenate(s) ==
    IF s = <<>> THEN <<>>
    ELSE IF IsSpace(Head(s))
    THEN <<"-">> \o Hyphenate(TrimStart(s))
    ELSE <<Head(s)>> \o Hyphenate(Tail(s))

NormalizeTag(raw) == Hyphenate(ToLowerCase(Trim(raw)))

\* [...new Set(list)]: the first occurrence of every element, in order
RECURSIVE Dedupe(_)
Dedupe(list) ==
    IF list = <<>> THEN <<>>
    ELSE LET front == Dedupe(SubSeq(list, 1, Len(list) - 1))
             x     == list[Len(list)]
         IN  IF \E i \in 1..Len(front) : front[i] = x THEN front
             ELSE Append(front, x)

\* photo.tags || []
TagsOf(photo) == IF "tags" \in DOMAIN photo THEN photo.tags ELSE <<>>

\* [...new Set([...(photo.tags || []), tag])]
TagsWith(photo, tag) == Dedupe(Append(TagsOf(photo), tag))

\* (photo.tags || []).filter(t => t !== tag)
TagsWithout(photo, tag) == SelectSeq(TagsOf(photo), LAMBDA t : t # tag)

\* JSON.parse(content) throws a SyntaxError
ParseThrows(content) == content = MalformedDoc

\* JSON.parse(content).photos || []
ParsePhotos_Empty(content) == <<>>

ParsePhotos(content) == IF content = DocWithoutPhotos THEN <<>> ELSE content

\* const hasEdits = Object.keys(state.dirty).length > 0
HasEdits(d) == Cardinality(DOMAIN d) > 0

\* const hasDeletes = state.pendingDeletes.length > 0
HasDeletes_OrNone(pd) == Len(pd) >= 0

HasDeletes(pd) == Len(pd) > 0

\* updatePublishBtn: btn.disabled = count === 0
UpdatePublishBtn(d, pd) == PendingChangeCount(d, pd) = 0

\* state.photos.map(p => state.dirty[p.id] ?? p)
Merged_IgnoresOverlay(ph, d) == ph

Merged_AppendsOverlay(ph, d) ==
    LET edited == SelectSeq(ph, LAMBDA p : p.id \in DOMAIN d)
    IN  ph \o [i \in 1..Len(edited) |-> d[edited[i].id]]

Merged(ph, d) ==
    [i \in 1..Len(ph) |-> IF ph[i].id \in DOMAIN d THEN d[ph[i].id] ELSE ph[i]]

\* the src / thumb of a record in the order the delete loop visits them
PathOf(photo, f) == IF f = 1 THEN photo.src ELSE photo.thumb

\* the position (record index, field) of the next ghDeleteFile call of
\* the loop at or after (i, f); i = 0 when the loop runs off the array
RECURSIVE NextTarget(_, _, _)
NextTarget(arr, i, f) ==
    IF i > Len(arr) THEN [i |-> 0, f |-> 0]
    ELSE IF f > 2 THEN NextTarget(arr, i + 1, 1)
    ELSE IF IsLocal(PathOf(arr[i], f)) THEN [i |-> i, f |-> f]
    ELSE NextTarget(arr, i, f + 1)

\* if (state.selected && state.photos.find(...)) selectPhoto(state.selected)
\* at the end of renderGrid: the edit panel is redrawn for the selection
\* when its record is in the list, and left as it is otherwise
RenderGridPanel(ph, sel, pan) ==
    IF sel # Null /\ Find(ph, sel) # NotFound THEN sel ELSE pan

\* the tag chips of the edit form after renderGrid: those of the record the
\* form is redrawn for
RenderGridChips(ph, d, sel, ch) ==
    IF sel # Null /\ Find(ph, sel) # NotFound
    THEN TagsOf(GetPhoto(ph, d, sel)) ELSE ch

\* the sha ghPutFile sends: the one ghGetFile has just returned
PutToken_HeldSha(got, held) == held

PutToken(got, held) == got

\* the Contents API accepts a PUT on an existing path only with its sha
PutAccepted(token, content) == token = ShaOf(content)

(* ------------------------------------------------------------------ *)
(* The batch processor (src/scripts/process-photos.js): data and pure   *)
(* helpers                                                              *)
(* ------------------------------------------------------------------ *)
\* number of times the processor is run on the working directory
MaxRuns == 2

\* A file name is a sequence of characters.
FileT   == <<"t", ".", "j", "p", "g">>
FileT2  == <<"T", " ", ".", "j", "p", "g">>
FileB   == <<"b", "_", "1", ".", "p", "n", "g">>
FileBad == <<"c", ".", "j", "p", "g">>
FileTxt == <<"n", ".", "t", "x", "t">>
FileHid == <<".", "h", ".", "j", "p", "g">>
\* the files photos/uploads may hold
UploadPool == <<FileB, FileBad, FileHid, FileTxt, FileT, FileT2>>
\* the files sharp cannot decode
CorruptFiles == {FileBad}

IMAGE_EXTS ==
    {<<".", "j", "p", "g">>, <<".", "j", "p", "e", "g">>, <<".", "p", "n", "g">>,
     <<".", "t", "i", "f">>, <<".", "t", "i", "f", "f">>,
     <<".", "h", "e", "i", "c">>, <<".", "h", "e", "i", "f">>,
     <<".", "w", "e", "b", "p">>}

UploadsDir == <<"photos/uploads/">>
ThumbsDir  == <<"photos/thumbs/">>
DefaultCamera == "Hasselblad X2D II"

\* photos.json does not exist
NoFile == <<[nofile |-> TRUE]>>

\* position of the last "." of s, 0 when it has none
LastDot(s) ==
    LET dots == {i \in 1..Len(s) : s[i] = "."}
    IN  IF dots = {} THEN 0 ELSE CHOOSE i \in dots : \A j \in dots : j <= i

\* path.extname: from the last "." on, empty when the only "." leads
ExtName(f) ==
    IF LastDot(f) <= 1 THEN <<>> ELSE SubSeq(f, LastDot(f), Len(f))

\* the filter of readdirSync's listing
IsImageFile(f) ==
    /\ ToLowerCase(ExtName(f)) \in IMAGE_EXTS
    /\ ~StartsWith(f, <<".">>)

AlnumChars ==
    {"a", "b", "c", "d", "e", "f", "g", "h", "i", "j", "k", "l", "m", "n", "o",
     "p", "q", "r", "s", "t", "u", "v", "w", "x", "y", "z",
     "0", "1", "2", "3", "4", "5", "6", "7", "8", "9"}

\* .replace(/\.[^.]+$/, '')
RemoveExtension(s) ==
    IF LastDot(s) >= 1 /\ LastDot(s) < Len(s)
    THEN SubSeq(s, 1, LastDot(s) - 1)
    ELSE s

RECURSIVE SkipNonAlnum(_)
SkipNonAlnum(s) ==
    IF s # <<>> /\ Head(s) \notin AlnumChars THEN SkipNonAlnum(Tail(s)) ELSE s

\* .replace(/[^a-z0-9]+/g, '-')
RECURSIVE HyphenateNonAlnum(_)
HyphenateNonAlnum(s) ==
    IF s = <<>> THEN <<>>
    ELSE IF Head(s) \notin AlnumChars
    THEN <<"-">> \o HyphenateNonAlnum(SkipNonAlnum(s))
    ELSE <<Head(s)>> \o HyphenateNonAlnum(Tail(s))

\* .replace(/^-+|-+$/g, '')
RECURSIVE TrimHyphens(_)
TrimHyphens(s) ==
    IF s # <<>> /\ Head(s) = "-" THEN TrimHyphens(Tail(s))
    ELSE IF s # <<>> /\ s[Len(s)] = "-"
    THEN TrimHyphens(SubSeq(s, 1, Len(s) - 1))
    ELSE s

Slugify(name) ==
    TrimHyphens(HyphenateNonAlnum(RemoveExtension(ToLowerCase(name))))

\* the photos array the processor starts from: that of photos.json, or
\* none when the file is missing, is not JSON or has no photos array
ProcLoadPhotos(content) ==
    IF content \in {NoFile, MalformedDoc, DocWithoutPhotos} THEN <<>>
    ELSE content

\* knownIds.add(id)
AddKnown_Forgets(known, id) == known

AddKnown(known, id) == known \cup {id}

ThumbName(id) == id \o <<".jpg">>

\* the stub entry of a file; the images of the model carry no EXIF data and
\* no size
StubEntry(filename, id) ==
    [id |-> id,
     src |-> UploadsDir \o filename,
     thumb |-> ThumbsDir \o ThumbName(id),
     title |-> "", description |-> "", location |-> "", date |-> "",
     category |-> "Uncategorized", tags |-> <<>>, camera |-> DefaultCamera,
     width |-> 0, height |-> 0, featured |-> FALSE]

\* an entry the processor wrote in the past, since then titled in the admin
\* console
OldEntry == [StubEntry(FileB, Slugify(FileB)) EXCEPT !.title = "Kept"]

\* what photos.json may hold when the processor is first run
ProcDocs == {NoFile, MalformedDoc, DocWithoutPhotos, <<>>, <<OldEntry>>}

Reverse(seq) == [i \in 1..Len(seq) |-> seq[Len(seq) + 1 - i]]
\* the orders readdirSync may list a directory in
ListingOrders == {UploadPool, Reverse(UploadPool)}

\* the working directory before any run, and the processor not running
NoDisk == [photosJson |-> NoFile, uploads |-> {}, thumbs |-> {}]
NoProc == [pc |-> "idle", run |-> 0, photosData |-> <<>>, knownIds |-> {},
           files |-> <<>>, i |-> 0, newEntries |-> <<>>, processed |-> 0,
           skipped |-> 0, before |-> NoFile, wrote |-> FALSE, writes |-> 0]

(* ------------------------------------------------------------------ *)
(* The gallery page (src/unnamed/part_000): data, pure helpers          *)
(* ------------------------------------------------------------------ *)
\* number of setTimeout callbacks of transitionGallery pending at once
MaxTimers == 2

\* The photos of the gallery.  A date and a title are modelled by their rank
\* in the order localeCompare gives; 0 is the empty string.
GalA == [id |-> "a", category |-> "x", tags |-> <<TagT>>, date |-> 2,
         title |-> 1, featured |-> FALSE]
GalB == [id |-> "b", category |-> "y", tags |-> <<>>, date |-> 1,
         title |-> 3, featured |-> TRUE]
GalC == [id |-> "c", category |-> "x", tags |-> <<>>, date |-> 0,
         title |-> 2, featured |-> FALSE]
GalleryManifest == <<GalA, GalB, GalC>>

AllCategories == "all"
\* the values of the sort select
SortValues == {"newest", "oldest", "title"}

\* the pills buildFilters draws
CategoriesOf(ph) == {AllCategories} \cup {ph[i].category : i \in 1..Len(ph)}
\* the options of the tag filter: no tag, or one of the tags of the photos
TagChoicesOf(ph) ==
    {{}} \cup UNION {{{ph[i].tags[j]} : j \in 1..Len(ph[i].tags)} : i \in 1..Len(ph)}

\* (p.tags || []).includes(tag)
HasTag(p, tag) == \E j \in 1..Len(p.tags) : p.tags[j] = tag

\* the comparator of the sort: a negative result, a goes before b
GoesBefore(by, a, b) ==
    CASE by = "newest" -> b.date < a.date
      [] by = "oldest" -> a.date < b.date
      [] by = "title"  -> a.title < b.title
      [] OTHER -> FALSE

\* Array.prototype.sort is stable: x goes before the first element it goes
\* before
RECURSIVE InsertSorted(_, _, _)
InsertSorted(sorted, x, by) ==
    IF sorted = <<>> THEN <<x>>
    ELSE IF GoesBefore(by, x, Head(sorted)) THEN <<x>> \o sorted
    ELSE <<Head(sorted)>> \o InsertSorted(Tail(sorted), x, by)

RECURSIVE SortPhotos(_, _)
SortPhotos(ph, by) ==
    IF ph = <<>> THEN <<>>
    ELSE InsertSorted(SortPhotos(SubSeq(ph, 1, Len(ph) - 1), by), ph[Len(ph)], by)

\* applyFiltersAndSort: the value it gives state.filtered
ApplyFiltersAndSort(ph, cat, tags, by) ==
    LET inCat  == IF cat # AllCategories
                  THEN SelectSeq(ph, LAMBDA p : p.category = cat) ELSE ph
        tagged == IF tags # {}
                  THEN SelectSeq(inCat, LAMBDA p : \A t \in tags : HasTag(p, t))
                  ELSE inCat
        sorted == SortPhotos(tagged, by)
    IN  SelectSeq(sorted, LAMBDA p : p.featured)
            \o SelectSeq(sorted, LAMBDA p : ~p.featured)

\* navigate(dir): the index it leaves in state.lb
NavigateTo(index, dir, len) ==
    IF index + dir < 0 \/ index + dir >= len THEN index ELSE index + dir

(* ------------------------------------------------------------------ *)
(* State                                                                *)
(* ------------------------------------------------------------------ *)
VARIABLES
    photos,          \* state.photos: the current photos array
    dirty,           \* state.dirty: { [id]: modified photo object }
    pendingDeletes,  \* state.pendingDeletes: photo objects to remove on publish
    sha,             \* state.sha: photos.json sha held by the session
    selected,        \* state.selected: currently selected photo id, or null
    panel,           \* what #edit-panel shows: "empty", "deleted", "settings"
                     \* (the site settings form) or the id
                     \* whose edit form (with its handlers) is on screen
    chips,           \* the tags shown as chips in #tag-chips of the form
    btnDisabled,     \* #publish-btn.disabled
    btnLabel,        \* #publish-btn.textContent
    remoteManifest,  \* the photos array of photos.json in the repository
    remoteFiles,     \* the image files present in the repository
    ld,              \* the running startAdmin invocation, if any
    pub,             \* the running publishToGitHub invocations, oldest first:
                     \* their locals and what each has done so far
    last,            \* how the publish attempt that has just ended ended
    call,            \* the handler of the store or of Publish that has just
                     \* run, and how it ended
    hist,            \* session history the properties are stated over
    siteConfig,      \* state.siteConfig: site-config.json content, or null
    configSha,       \* state.configSha: site-config.json sha, or null
    cfgBtnDisabled,  \* #cfg-save-btn.disabled of the settings form on screen
    remoteConfig,    \* site-config.json in the repository
    cfgRun,          \* the running showSettingsPanel and saveSettings
                     \* invocations
    cfgLast,         \* the saveSettings that has just ended, the number of
                     \* those ended, and the sha the last load or save of the
                     \* settings obtained
    galleryPhotos,   \* gallery page, state.photos
    filtered,        \* gallery page, state.filtered
    activeCategory,  \* gallery page, state.activeCategory
    activeTags,      \* gallery page, state.activeTags
    sort,            \* gallery page, state.sort
    lb,              \* gallery page, state.lb: { open, index }
    cards,           \* gallery page: the number of .photo-card elements in
                     \* #gallery, whose data-index run from 0
    timers,          \* gallery page: pending setTimeout callbacks of
                     \* transitionGallery
    disk,            \* the working directory of the batch processor:
                     \* photos.json, photos/uploads and photos/thumbs
    proc             \* the run of the batch processor: its variables, and
                     \* before (photos.json when the run started), wrote and
                     \* writes (writeFileSync calls of the run, of all runs)

vars == <<photos, dirty, pendingDeletes, sha, selected, panel, chips, btnDisabled,
          btnLabel, remoteManifest, remoteFiles, ld, pub, last, call, hist, disk, proc,
          siteConfig, configSha, cfgBtnDisabled, remoteConfig, cfgRun, cfgLast,
          galleryPhotos, filtered, activeCategory, activeTags, sort, lb, cards,
          timers>>

\* the variables of the gallery page
gallery == <<galleryPhotos, filtered, activeCategory, activeTags, sort, lb, cards,
             timers>>

\* the variables of the site settings
settings == <<siteConfig, configSha, cfgBtnDisabled, remoteConfig, cfgRun, cfgLast>>

\* the variables of the admin session
session == <<settings, photos, dirty, pendingDeletes, sha, selected, panel, chips,
             btnDisabled, btnLabel, remoteManifest, remoteFiles, ld, pub, last,
             call, hist>>

store == <<photos, dirty, pendingDeletes>>

NoSnap == <<>>

\* An invocation of publishToGitHub.  Locals of the code: arr (the array
\* object the for-of loop iterates), i and f (its position), merged, token
\* (the sha handed to ghPutFile), res (how the PUT went).  History: ops (the
\* remote calls made), snap and quiet (the store when the attempt started,
\* kept while no other handler has run since), base (what merged was
\* computed from), stale (the manifest ghGetFile read was written by somebody
\* else since the session's sha), retryBase (the paths deleteFile was called
\* for in earlier attempts that failed at the write), written (the content
\* the repository took from the PUT), gone (the files its DELETE requests
\* removed).
NewInv == [pc |-> "start", arr |-> <<>>, live |-> FALSE, i |-> 0, f |-> 0,
           merged |-> <<>>, token |-> NoSha, res |-> "none",
           ops |-> <<>>, snap |-> NoSnap, quiet |-> FALSE, base |-> NoSnap,
           stale |-> FALSE, retryBase |-> {}, written |-> <<>>, gone |-> {}]

NoLast == [outcome |-> "none", res |-> "none", snap |-> NoSnap,
           quiet |-> FALSE, base |-> NoSnap, written |-> <<>>, gone |-> {}]

\* A handler call: op is the handler, id the record it was about, found
\* whether getPhoto(id) gave a record when it was called, staged whether
\* the id had an overlay entry then, result how it ended: "done",
\* "returned" (an early return that did nothing), "threw" (an exception
\* left the handler), and for a click on Publish "started" or "nothing";
\* arg is the text or tag the handler was given, if any.
NoCall == [op |-> "none", id |-> Null, arg |-> <<>>, found |-> FALSE,
           staged |-> FALSE, result |-> "none"]

CalledWith(op, id, arg, result) ==
    [op |-> op, id |-> id, arg |-> arg,
     found |-> GetPhoto(photos, dirty, id) # NotFound,
     staged |-> id \in DOMAIN dirty,
     result |-> result]

Called(op, id, result) == CalledWith(op, id, <<>>, result)

(* ------------------------------------------------------------------ *)
(* Site settings: data, pure helpers, initial state                     *)
(* ------------------------------------------------------------------ *)
\* state.siteConfig = null
NoConfig  == [null |-> TRUE]
\* site-config.json is not in the repository
CfgAbsent == [absent |-> TRUE]

DefaultSiteName == <<"LEHTORE">>
DefaultEyebrow  == <<"Photography">>
\* the configuration showSettingsPanel falls back to when the load fails
DefaultConfig ==
    [siteName |-> DefaultSiteName, heroEyebrow |-> DefaultEyebrow,
     heroTagline |-> <<>>, showHeroTagline |-> FALSE,
     showScrollIndicator |-> FALSE]
\* site-config.json when the session starts, and as another writer leaves it
CfgOld == [DefaultConfig EXCEPT !.siteName = <<"O">>]
CfgExt == [DefaultConfig EXCEPT !.siteName = <<"E">>]

\* what the settings form may hold when Save is clicked: the texts of the
\* fields, the lines of the tagline textarea, the two checkboxes
FormInputs ==
    {[sitename |-> <<" ", "N">>, eyebrow |-> <<" ">>,
      tagline |-> << <<" ">>, <<"x", " ">> >>,
      showTagline |-> TRUE, showScroll |-> FALSE],
     [sitename |-> <<"M">>, eyebrow |-> <<"e">>,
      tagline |-> <<>>,
      showTagline |-> FALSE, showScroll |-> TRUE]}

\* value.trim() || fallback
TrimOr(raw, fallback) == IF Trim(raw) = <<>> THEN fallback ELSE Trim(raw)

\* taglineRaw.split('\n').map(s => s.trim()).filter(Boolean)
TaglineOf(lines) ==
    SelectSeq([i \in 1..Len(lines) |-> Trim(lines[i])], LAMBDA l : l # <<>>)

\* newConfig of saveSettings
NewConfig(form) ==
    [siteName |-> TrimOr(form.sitename, DefaultSiteName),
     heroEyebrow |-> TrimOr(form.eyebrow, DefaultEyebrow),
     heroTagline |-> TaglineOf(form.tagline),
     showHeroTagline |-> form.showTagline,
     showScrollIndicator |-> form.showScroll]

\* the sha saveSettings hands to ghPutFile: the one the session holds
CfgPutToken(held) == held

\* the Contents API accepts a PUT on an existing path only with its sha, and
\* on a new path without one
CfgPutAccepted(token, content) ==
    IF content = CfgAbsent THEN token = NoSha ELSE token = ShaOf(content)

\* state.configSha after a save: result.content.sha
SavedSha_Kept(held, written) == held

SavedSha(held, written) == ShaOf(written)

\* An invocation of showSettingsPanel awaiting ghGetFile (kind "load": ok
\* and got are the answer) or of saveSettings awaiting ghPutFile (kind
\* "save": token, newConfig, res; btnLive: its button is the one on screen).
\* History: held (the sha the last load or save had obtained when Save was
\* clicked), seen (site-config.json when the PUT was handled).
NewCfgInv == [kind |-> "none", pc |-> "none", ok |-> FALSE, got |-> CfgAbsent,
              token |-> NoSha, newConfig |-> NoConfig, res |-> "none",
              btnLive |-> FALSE, held |-> NoSha, seen |-> CfgAbsent]

NoCfgLast == [outcome |-> "none", n |-> 0, tag |-> NoSha, token |-> NoSha,
              held |-> NoSha, seen |-> CfgAbsent, written |-> NoConfig]

SettingsInit ==
    /\ siteConfig = NoConfig
    /\ configSha = NoSha
    /\ cfgBtnDisabled = FALSE
    /\ remoteConfig = CfgOld
    /\ cfgRun = <<>>
    /\ cfgLast = NoCfgLast

\* the state object of the gallery page as constructed
GalleryIdle ==
    /\ galleryPhotos = <<>>
    /\ filtered = <<>>
    /\ activeCategory = AllCategories
    /\ activeTags = {}
    /\ sort = "newest"
    /\ lb = [open |-> FALSE, index |-> 0]
    /\ cards = 0
    /\ timers = 0

IdleLd == [pc |-> "idle", content |-> <<>>]

Init ==
    /\ photos = <<>>
    /\ dirty = EmptyObj
    /\ pendingDeletes = <<>>
    /\ sha = NoSha
    /\ selected = Null
    /\ panel = "empty"
    /\ chips = <<>>
    /\ btnDisabled \in BOOLEAN
    /\ disk = NoDisk
    /\ proc = NoProc
    /\ GalleryIdle
    /\ SettingsInit
    /\ btnLabel = LabelIdle
    /\ remoteManifest = InitialManifest
    /\ remoteFiles = InitialFiles
    \* the page has called startAdmin, whose ghGetFile has read the repository
    /\ ld = [pc |-> "fetched", content |-> InitialManifest]
    /\ pub = <<>>
    /\ last = NoLast
    /\ call = NoCall
    /\ hist = [events |-> 0,
               byExternal |-> FALSE, loadedIds |-> <<>>, staging |-> FALSE,
               staged |-> {}, out |-> {}, failedDeletes |-> {},
               overlap |-> FALSE]

Ids(list) == [i \in 1..Len(list) |-> list[i].id]
IdSet(list) == {list[i].id : i \in 1..Len(list)}
Range(seq) == {seq[i] : i \in 1..Len(seq)}

Running == 1..Len(pub)

\* another handler ran: the attempt is no longer the only thing that has
\* happened since it started
Disturbed(inv) == [inv EXCEPT !.quiet = FALSE, !.snap = NoSnap]

DisturbAll == [k \in Running |-> Disturbed(pub[k])]

\* state.pendingDeletes = [] : the loops still running iterate the old array
Detached(invs) == [k \in 1..Len(invs) |-> [invs[k] EXCEPT !.live = FALSE]]

\* no publishToGitHub and no startAdmin is running
Quiescent(invs, load) == invs = <<>> /\ load.pc = "idle"

RemoveAt(seq, k) == SubSeq(seq, 1, k - 1) \o SubSeq(seq, k + 1, Len(seq))

(* ------------------------------------------------------------------ *)
(* Staging handlers (synchronous)                                       *)
(* ------------------------------------------------------------------ *)
\* click on a card of the grid: selectPhoto(id) -> renderEditPanel(id)
SelectPhoto(id) ==
    /\ id \in IdSet(photos)
    /\ hist.events < MaxEvents
    /\ hist' = [hist EXCEPT !.events = @ + 1]
    /\ selected' = id
    /\ panel' = IF GetPhoto(photos, dirty, id) # NotFound THEN id ELSE panel
    /\ chips' = IF GetPhoto(photos, dirty, id) # NotFound
                THEN TagsOf(GetPhoto(photos, dirty, id)) ELSE chips
    /\ pub' = DisturbAll
    /\ last' = NoLast
    /\ call' = NoCall
    /\ UNCHANGED <<settings, gallery, disk, proc, btnLabel, photos, dirty, pendingDeletes, sha, btnDisabled,
                   remoteManifest, remoteFiles, ld>>

\* input event on a field of the edit form: autoSave -> applyDraft
AutoSave(t) ==
    /\ panel \notin NoForm
    /\ hist.events < MaxEvents
    /\ hist' = [hist EXCEPT !.events = @ + 1]
    /\ dirty' = ApplyDraft(photos, dirty, selected, [title |-> t])
    /\ btnDisabled' = UpdatePublishBtn(dirty', pendingDeletes)
    /\ pub' = DisturbAll
    /\ last' = NoLast
    /\ call' = Called("stageEdit", selected, "done")
    /\ UNCHANGED <<settings, gallery, disk, proc, btnLabel, photos, pendingDeletes, sha, selected, panel, chips,
                   remoteManifest, remoteFiles, ld>>

\* click on Revert (#ef-reset) of the edit form drawn for id = panel
Revert ==
    /\ panel \notin NoForm
    /\ hist.events < MaxEvents
    /\ hist' = [hist EXCEPT !.events = @ + 1]
    /\ dirty' = DeleteKey(dirty, panel)
    /\ btnDisabled' = UpdatePublishBtn(dirty', pendingDeletes)
    /\ pub' = DisturbAll
    /\ last' = NoLast
    /\ call' = Called("revert", panel, "done")
    \* renderEditPanel(id) redraws the form unless getPhoto(id) is null
    /\ chips' = IF GetPhoto(photos, dirty', panel) # NotFound
                THEN TagsOf(GetPhoto(photos, dirty', panel)) ELSE chips
    /\ UNCHANGED <<settings, gallery, disk, proc, btnLabel, photos, pendingDeletes, sha, selected, panel,
                   remoteManifest, remoteFiles, ld>>

\* click on Delete Photo of the edit form drawn for id = panel, confirmed:
\* markForDelete(id).  It returns at once when state.photos has no record
\* with that id.
MarkForDelete ==
    /\ panel \notin NoForm
    /\ hist.events < MaxEvents
    /\ LET id    == panel
           photo == Find(photos, id)
       IN  IF photo = NotFound
           THEN /\ call' = Called("stageDelete", id, "returned")
                /\ hist' = [hist EXCEPT !.events = @ + 1]
                /\ pub' = DisturbAll
                /\ UNCHANGED <<settings, gallery, disk, proc, btnLabel, photos, dirty, pendingDeletes, selected, panel, chips,
                               btnDisabled>>
           ELSE /\ call' = Called("stageDelete", id, "done")
                /\ hist' = [hist EXCEPT !.events = @ + 1,
                                        !.staged = @ \cup {id},
                                        !.out = @ \cup {id}]
                /\ pendingDeletes' = Append(pendingDeletes, photo)
                /\ photos' = Without(photos, id)
                /\ dirty' = DeleteKey(dirty, id)
                \* push() grows the array object a running delete loop iterates
                /\ pub' = [k \in Running |->
                             IF pub[k].live
                             THEN [Disturbed(pub[k]) EXCEPT !.arr = Append(@, photo)]
                             ELSE Disturbed(pub[k])]
                /\ selected' = Null
                /\ panel' = "deleted"
                /\ chips' = <<>>
                /\ btnDisabled' = UpdatePublishBtn(dirty', pendingDeletes')
    /\ last' = NoLast
    /\ UNCHANGED <<settings, gallery, disk, proc, btnLabel, sha, remoteManifest, remoteFiles, ld>>

\* the part of addTag / removeTag after the tag is known: getPhoto(
\* state.selected).tags throws a TypeError when no record is found;
\* otherwise tags is the new tag list computed from the record, it goes
\* through applyDraft({ tags }) and the chips are redrawn.
\* updatePublishBtn is not called.
StageTags(op, arg, tags) ==
    LET photo == GetPhoto(photos, dirty, selected)
    IN  IF photo = NotFound
        THEN /\ call' = CalledWith(op, selected, arg, "threw")
             /\ UNCHANGED <<settings, gallery, disk, proc, btnLabel, dirty, chips>>
        ELSE /\ call' = CalledWith(op, selected, arg, "done")
             /\ dirty' = ApplyDraft(photos, dirty, selected,
                                    [tags |-> tags])
             /\ chips' = tags

\* click on Add (or Enter) in the tag field of the edit form: addTag(raw)
AddTag(raw) ==
    /\ panel \notin NoForm
    /\ hist.events < MaxEvents
    /\ hist' = [hist EXCEPT !.events = @ + 1]
    /\ LET tag == NormalizeTag(raw)
       IN  IF tag = <<>>
           THEN /\ call' = CalledWith("stageTagAdd", selected, raw, "returned")
                /\ UNCHANGED <<settings, gallery, disk, proc, btnLabel, dirty, chips>>
           ELSE StageTags("stageTagAdd", raw,
                          TagsWith(GetPhoto(photos, dirty, selected), tag))
    /\ pub' = DisturbAll
    /\ last' = NoLast
    /\ UNCHANGED <<settings, gallery, disk, proc, btnLabel, photos, pendingDeletes, sha, selected, panel, btnDisabled,
                   remoteManifest, remoteFiles, ld>>

\* click on the x of a tag chip of the edit form: removeTag(tag)
RemoveTag(tag) ==
    /\ panel \notin NoForm
    /\ \E i \in 1..Len(chips) : chips[i] = tag
    /\ hist.events < MaxEvents
    /\ hist' = [hist EXCEPT !.events = @ + 1]
    /\ StageTags("stageTagRemove", tag,
                 TagsWithout(GetPhoto(photos, dirty, selected), tag))
    /\ pub' = DisturbAll
    /\ last' = NoLast
    /\ UNCHANGED <<settings, gallery, disk, proc, btnLabel, photos, pendingDeletes, sha, selected, panel, btnDisabled,
                   remoteManifest, remoteFiles, ld>>

(* ------------------------------------------------------------------ *)
(* publishToGitHub                                                      *)
(*                                                                      *)
(* Steps.  A call of ghDeleteFile (its GET for the sha and its DELETE)  *)
(* is one step: the two requests read and write the one file and no     *)
(* session state.  The merge of line 243 and the ghGetFile of line 247  *)
(* belong to the step that leaves the delete loop: ghGetFile reads the  *)
(* repository only, so whatever runs between the merge and its answer   *)
(* has the same effect when it runs between the answer and the PUT.     *)
(* The PUT is two steps: the repository handling it, and the await of   *)
(* line 248 settling in the page.                                       *)
(* ------------------------------------------------------------------ *)
\* the remote calls of an attempt, as recorded in its ops
OpDelete(path) == <<"deleteFile", path>>
OpGet          == <<"getFile">>
OpGot(s)       == <<"getFile.sha", s>>
OpPut(token)   == <<"putFile", token>>

DelCalls(ops) == {ops[k][2] : k \in {x \in 1..Len(ops) : ops[x][1] = "deleteFile"}}

GetResults == {"ok", "fails"}

\* Run the delete loop from position (i, f) of the array up to the next
\* await that is a step boundary: the ghDeleteFile call of the next local
\* path or, past the end of the array, the merge, ghGetFile (which answers
\* g) and the ghPutFile call.
RunLoop(inv, i, f, g) ==
    LET t == NextTarget(inv.arr, i, f)
    IN  IF t.i # 0
        THEN [inv EXCEPT !.pc = "loop", !.i = t.i, !.f = t.f,
                         !.ops = @ \o <<OpDelete(PathOf(inv.arr[t.i], t.f))>>]
        ELSE IF g = "ok"
        THEN LET got   == ShaOf(remoteManifest)
                 token == PutToken(got, sha)
             IN  [inv EXCEPT !.pc = "put", !.i = 0, !.f = 0, !.live = FALSE,
                             !.merged = Merged(photos, dirty),
                             !.base = store,
                             !.token = token,
                             !.ops = @ \o <<OpGet, OpGot(got), OpPut(token)>>,
                             !.stale = hist.byExternal /\ sha # got]
        ELSE [inv EXCEPT !.pc = "failed_get", !.ops = @ \o <<OpGet>>]

Ended(inv, how) ==
    [outcome |-> how, res |-> inv.res, snap |-> inv.snap, quiet |-> inv.quiet,
     base |-> inv.base, written |-> inv.written, gone |-> inv.gone]

\* catch (err) { showToast('Publish failed: ...') } finally { btn.disabled = false }
AttemptFails_Unreported(k, how) ==
    /\ pub' = RemoveAt(DisturbAll, k)
    /\ last' = NoLast
    /\ UNCHANGED <<btnDisabled, btnLabel>>

AttemptFails_Stays(k, how) ==
    /\ pub' = pub
    /\ last' = last
    /\ UNCHANGED <<btnDisabled, btnLabel>>

AttemptFails(k, how) ==
    /\ pub' = RemoveAt(DisturbAll, k)
    /\ last' = Ended(pub[k], how)
    /\ btnDisabled' = FALSE
    /\ btnLabel' = LabelIdle

\* the attempt goes on as new (or has failed at ghGetFile)
AttemptGoesOn(k, new) ==
    IF new.pc = "failed_get"
    THEN AttemptFails(k, "failed_get")
    ELSE /\ pub' = [j \in Running |-> IF j = k THEN new ELSE Disturbed(pub[j])]
         /\ last' = NoLast
         /\ UNCHANGED <<btnDisabled, btnLabel>>

\* click on #publish-btn with nothing staged: toast, return
PublishNothing ==
    /\ ~btnDisabled
    /\ ~HasEdits(dirty) /\ ~HasDeletes(pendingDeletes)
    /\ pub' = DisturbAll
    /\ last' = NoLast
    /\ call' = Called("publish", Null, "nothing")
    /\ UNCHANGED <<settings, gallery, disk, proc, btnLabel, photos, dirty, pendingDeletes, sha, selected, panel, chips,
                   btnDisabled, remoteManifest, remoteFiles, ld, hist>>

\* click on #publish-btn: publishToGitHub up to its first step boundary
PublishStart(g) ==
    /\ ~btnDisabled
    /\ HasEdits(dirty) \/ HasDeletes(pendingDeletes)
    /\ hist.events < MaxEvents
    /\ call' = Called("publish", Null, "started")
    /\ LET inv == [NewInv EXCEPT !.arr = pendingDeletes, !.live = TRUE,
                                 !.snap = store, !.quiet = TRUE,
                                 !.retryBase = hist.failedDeletes]
           new == RunLoop(inv, 1, 1, g)
       IN  IF new.pc = "failed_get"
           THEN /\ pub' = DisturbAll
                /\ last' = Ended(new, "failed_get")
                /\ btnDisabled' = FALSE
                /\ btnLabel' = LabelIdle
           ELSE /\ pub' = Append(DisturbAll, new)
                /\ last' = NoLast
                /\ btnDisabled' = TRUE
                /\ btnLabel' = LabelPublishing
    /\ hist' = [hist EXCEPT !.events = @ + 1, !.staging = FALSE,
                            !.overlap = @ \/ (ld.pc = "fetched" /\ pub' # <<>>)]
    /\ UNCHANGED <<settings, gallery, disk, proc, photos, dirty, pendingDeletes, sha, selected, panel, chips,
                   remoteManifest, remoteFiles, ld>>

CurrentPath(k) == PathOf(pub[k].arr[pub[k].i], pub[k].f)

DeleteResults ==
    {"lookup_not_ok", "lookup_throws", "deleted", "rejected", "delete_throws"}

\* await ghDeleteFile(path, ...) : lines 122-137.
\*   lookup_not_ok, lookup_throws: the GET for the sha is answered not ok
\*     (the file is absent, or the request is refused) or fetch throws:
\*     ghDeleteFile returns
\*   deleted, rejected: the DELETE is sent and answered; the answer is not
\*     looked at
\*   delete_throws: fetch throws at the DELETE, which nothing in
\*     ghDeleteFile catches
GhDeleteFile(k, r, g) ==
    /\ k \in Running
    /\ pub[k].pc = "loop"
    /\ r \in {"deleted", "rejected", "delete_throws"} => CurrentPath(k) \in remoteFiles
    /\ remoteFiles' = IF r = "deleted" THEN remoteFiles \ {CurrentPath(k)}
                      ELSE remoteFiles
    /\ IF r = "delete_throws"
       THEN AttemptFails(k, "failed_delete")
       ELSE AttemptGoesOn(k, RunLoop([pub[k] EXCEPT !.gone = @ \cup
                                         (remoteFiles \ remoteFiles')],
                                     pub[k].i, pub[k].f + 1, g))
    /\ call' = NoCall
    /\ hist' = [hist EXCEPT !.overlap = @ /\ ~Quiescent(pub', ld)]
    /\ UNCHANGED <<settings, gallery, disk, proc, photos, dirty, pendingDeletes, sha, selected, panel, chips,
                   remoteManifest, ld>>

PutResults == {"ok", "conflict", "transport"}

\* the repository handles (or never receives) the PUT of photos.json
GhPutFileServer(k, r) ==
    /\ k \in Running
    /\ pub[k].pc = "put"
    /\ CASE r = "ok" ->
              /\ PutAccepted(pub[k].token, remoteManifest)
              /\ remoteManifest' = pub[k].merged
              /\ hist' = [hist EXCEPT !.byExternal = FALSE]
         [] r = "conflict" ->
              /\ ~PutAccepted(pub[k].token, remoteManifest)
              /\ UNCHANGED <<settings, gallery, disk, proc, btnLabel, remoteManifest, hist>>
         [] r = "transport" ->
              /\ UNCHANGED <<settings, gallery, disk, proc, btnLabel, remoteManifest, hist>>
    /\ pub' = [pub EXCEPT ![k].pc = "putresp", ![k].res = r,
                          ![k].written = IF r = "ok" THEN remoteManifest'
                                         ELSE <<>>]
    /\ call' = NoCall
    /\ UNCHANGED <<settings, gallery, disk, proc, btnLabel, photos, dirty, pendingDeletes, sha, selected, panel, chips,
                   btnDisabled, remoteFiles, ld, last>>

\* lines 250-258: ghPutFile has returned
PublishCommits(k) ==
    /\ sha' = ShaOf(pub[k].merged)
    /\ photos' = pub[k].merged
    /\ dirty' = EmptyObj
    /\ pendingDeletes' = <<>>
    /\ panel' = RenderGridPanel(photos', selected, panel)
    /\ chips' = RenderGridChips(photos', dirty', selected, chips)
    \* updatePublishBtn(), then finally { btn.disabled = false }
    /\ btnDisabled' = FALSE
    /\ btnLabel' = LabelIdle
    /\ pub' = Detached(RemoveAt(DisturbAll, k))
    /\ last' = Ended(pub[k], "success")
    /\ hist' = [hist EXCEPT !.failedDeletes = {}, !.staging = FALSE,
                            !.overlap = @ /\ ~Quiescent(pub', ld)]

\* lines 259-264: ghPutFile has thrown
PublishCatches_ClearsOverlay(k) ==
    /\ AttemptFails(k, "failed_put")
    /\ hist' = [hist EXCEPT !.failedDeletes = @ \cup DelCalls(pub[k].ops),
                            !.overlap = @ /\ ~Quiescent(pub', ld)]
    /\ dirty' = EmptyObj
    /\ UNCHANGED <<settings, gallery, disk, proc, sha, photos, pendingDeletes, panel, chips>>

PublishCatches(k) ==
    /\ AttemptFails(k, "failed_put")
    /\ hist' = [hist EXCEPT !.failedDeletes = @ \cup DelCalls(pub[k].ops),
                            !.overlap = @ /\ ~Quiescent(pub', ld)]
    /\ UNCHANGED <<settings, gallery, disk, proc, sha, photos, dirty, pendingDeletes, panel, chips>>

\* await ghPutFile(...) settles in the page
PublishPutReturns(k) ==
    /\ k \in Running
    /\ pub[k].pc = "putresp"
    /\ IF pub[k].res = "ok" THEN PublishCommits(k) ELSE PublishCatches(k)
    /\ call' = NoCall
    /\ UNCHANGED <<settings, gallery, disk, proc, selected, remoteManifest, remoteFiles, ld>>

(* ------------------------------------------------------------------ *)
(* startAdmin (initial load and Refresh)                                *)
(* ------------------------------------------------------------------ *)
\* startAdmin called: ghGetFile('photos.json') reads the repository
StartAdminFetch ==
    /\ ld.pc = "idle"
    /\ hist.events < MaxEvents
    /\ ld' = [pc |-> "fetched", content |-> remoteManifest]
    /\ hist' = [hist EXCEPT !.events = @ + 1, !.staging = FALSE,
                            !.overlap = pub # <<>>]
    /\ pub' = DisturbAll
    /\ last' = NoLast
    /\ call' = NoCall
    /\ UNCHANGED <<settings, gallery, disk, proc, btnLabel, photos, dirty, pendingDeletes, sha, selected, panel, chips,
                   btnDisabled, remoteManifest, remoteFiles>>

\* startAdmin called and ghGetFile throws: toast, nothing else
StartAdminFails ==
    /\ ld.pc = "idle"
    /\ hist.events < MaxEvents
    /\ hist' = [hist EXCEPT !.events = @ + 1, !.staging = FALSE]
    /\ pub' = DisturbAll
    /\ last' = NoLast
    /\ call' = Called("load", Null, "failed_get")
    /\ UNCHANGED <<settings, gallery, disk, proc, btnLabel, photos, dirty, pendingDeletes, sha, selected, panel, chips,
                   btnDisabled, remoteManifest, remoteFiles, ld>>

\* await ghGetFile(...) returns: lines 167-172.  state.sha is assigned
\* first; when JSON.parse then throws, the catch shows a toast and the rest
\* of the state stays as it was.
StartAdminCommit ==
    /\ ld.pc = "fetched"
    /\ sha' = ShaOf(ld.content)
    /\ IF ParseThrows(ld.content)
       THEN /\ call' = CalledWith("load", Null, ld.content, "failed_parse")
            /\ pub' = DisturbAll
            /\ hist' = [hist EXCEPT !.staging = FALSE,
                                    !.overlap = @ /\ pub # <<>>]
            /\ UNCHANGED <<settings, gallery, disk, proc, btnLabel, photos, dirty, pendingDeletes, panel, chips,
                           btnDisabled>>
       ELSE /\ call' = CalledWith("load", Null, ld.content, "done")
            /\ photos' = ParsePhotos(ld.content)
            /\ dirty' = EmptyObj
            /\ pendingDeletes' = <<>>
            /\ panel' = RenderGridPanel(photos', selected, panel)
            /\ chips' = RenderGridChips(photos', dirty', selected, chips)
            /\ btnDisabled' = UpdatePublishBtn(dirty', pendingDeletes')
            /\ pub' = Detached(DisturbAll)
            /\ hist' = [hist EXCEPT !.loadedIds = Ids(photos'),
                                    !.staging = (pub = <<>>),
                                    !.out = {},
                                    !.failedDeletes = {},
                                    !.overlap = @ /\ pub # <<>>]
    /\ ld' = IdleLd
    /\ last' = NoLast
    /\ UNCHANGED <<settings, gallery, disk, proc, btnLabel, selected, remoteManifest, remoteFiles>>

(* ------------------------------------------------------------------ *)
(* Another writer of photos.json (the batch processor's commit, a       *)
(* second admin session, an edit on github.com)                         *)
(* ------------------------------------------------------------------ *)
Retitled(m, k) == [m EXCEPT ![k].title = ExternalTitle]
Removed(m, k)  == SubSeq(m, 1, k - 1) \o SubSeq(m, k + 1, Len(m))

ExternalEdits(m) ==
    ({Retitled(m, k) : k \in 1..Len(m)} \cup {Removed(m, k) : k \in 1..Len(m)})
        \ {m}

ExternalWrite ==
    /\ hist.events < MaxEvents
    /\ \E m \in ExternalEdits(remoteManifest) : remoteManifest' = m
    /\ hist' = [hist EXCEPT !.events = @ + 1, !.byExternal = TRUE]
    /\ call' = NoCall
    /\ UNCHANGED <<settings, gallery, disk, proc, btnLabel, photos, dirty, pendingDeletes, sha, selected, panel, chips,
                   btnDisabled, remoteFiles, ld, pub, last>>

\* somebody commits a photos.json that is not a manifest document
ExternalCorrupts ==
    /\ hist.events < MaxEvents
    /\ \E doc \in {MalformedDoc, DocWithoutPhotos} :
          doc # remoteManifest /\ remoteManifest' = doc
    /\ hist' = [hist EXCEPT !.events = @ + 1, !.byExternal = TRUE]
    /\ call' = NoCall
    /\ UNCHANGED <<settings, gallery, disk, proc, btnLabel, photos, dirty, pendingDeletes, sha, selected, panel, chips,
                   btnDisabled, remoteFiles, ld, pub, last>>

(* ------------------------------------------------------------------ *)
(* Specification                                                        *)
(* ------------------------------------------------------------------ *)
UserSelects      == \E id \in IdSet(InitialManifest) : SelectPhoto(id)
UserTypes        == \E t \in UserTitles : AutoSave(t)
UserAddsTag      == \E raw \in UserRawTags : AddTag(raw)
UserRemovesTag   == \E tag \in Range(chips) : RemoveTag(tag)
UserPublishes    == \E g \in GetResults : PublishStart(g)
DeleteFileSettles ==
    \E k \in Running, r \in DeleteResults, g \in GetResults : GhDeleteFile(k, r, g)
PutFileHandled   == \E k \in Running, r \in PutResults : GhPutFileServer(k, r)
PutFileSettles   == \E k \in Running : PublishPutReturns(k)

Next ==
    \/ UserSelects
    \/ UserTypes
    \/ UserAddsTag
    \/ UserRemovesTag
    \/ Revert
    \/ MarkForDelete
    \/ PublishNothing
    \/ UserPublishes
    \/ DeleteFileSettles
    \/ PutFileHandled
    \/ PutFileSettles
    \/ StartAdminFetch
    \/ StartAdminFails
    \/ StartAdminCommit
    \/ ExternalWrite

Spec == Init /\ [][Next]_vars

(* ------------------------------------------------------------------ *)
(* The tag handlers on their own: a session that has loaded the         *)
(* manifest, in which the user selects records and adds and removes     *)
(* tags                                                                 *)
(* ------------------------------------------------------------------ *)
Loaded ==
    /\ photos = InitialManifest
    /\ dirty = EmptyObj
    /\ pendingDeletes = <<>>
    /\ sha = ShaOf(InitialManifest)
    /\ selected = Null
    /\ panel = "empty"
    /\ chips = <<>>
    /\ btnDisabled = UpdatePublishBtn(dirty, pendingDeletes)
    /\ disk = NoDisk
    /\ proc = NoProc
    /\ GalleryIdle
    /\ SettingsInit
    /\ btnLabel = LabelIdle
    /\ remoteManifest = InitialManifest
    /\ remoteFiles = InitialFiles
    /\ ld = IdleLd
    /\ pub = <<>>
    /\ last = NoLast
    /\ call = NoCall
    /\ hist = [events |-> 0,
               byExternal |-> FALSE, loadedIds |-> Ids(InitialManifest),
               staging |-> TRUE, staged |-> {}, out |-> {},
               failedDeletes |-> {}, overlap |-> FALSE]

UserAddsAnyTag == \E raw \in RawTagInputs : AddTag(raw)

TagNext ==
    \/ UserSelects
    \/ UserAddsAnyTag
    \/ UserRemovesTag

(* ------------------------------------------------------------------ *)
(* The session when every remote call of a publish is answered or fails: *)
(* each await of publishToGitHub settles                                 *)
(* ------------------------------------------------------------------ *)
LiveSpec ==
    /\ Spec
    /\ WF_vars(DeleteFileSettles)
    /\ WF_vars(PutFileHandled)
    /\ WF_vars(PutFileSettles)

(* ------------------------------------------------------------------ *)
(* The session without any other writer of the repository               *)
(* ------------------------------------------------------------------ *)
AloneNext ==
    \/ UserSelects
    \/ UserTypes
    \/ UserAddsTag
    \/ UserRemovesTag
    \/ Revert
    \/ MarkForDelete
    \/ PublishNothing
    \/ UserPublishes
    \/ DeleteFileSettles
    \/ PutFileHandled
    \/ PutFileSettles
    \/ StartAdminFetch
    \/ StartAdminFails
    \/ StartAdminCommit

AloneSpec == Init /\ [][AloneNext]_vars

TagSpec == Loaded /\ [][TagNext]_vars

(* ------------------------------------------------------------------ *)
(* Loading on its own: a session in which the user stages changes and   *)
(* clicks Refresh while photos.json may be replaced by a content that   *)
(* is no manifest document                                              *)
(* ------------------------------------------------------------------ *)
LoadNext ==
    \/ UserSelects
    \/ UserTypes
    \/ MarkForDelete
    \/ StartAdminFetch
    \/ StartAdminFails
    \/ StartAdminCommit
    \/ ExternalCorrupts

LoadSpec == Init /\ [][LoadNext]_vars

(* ------------------------------------------------------------------ *)
(* The batch processor: a run, step by step, and the run after it       *)
(* ------------------------------------------------------------------ *)
\* node scripts/process-photos.js: load photos.json, build knownIds
ProcRuns ==
    /\ proc.pc \in {"idle", "done"}
    /\ proc.run < MaxRuns
    /\ LET loaded == ProcLoadPhotos(disk.photosJson)
       IN  proc' = [proc EXCEPT !.pc = "scan",
                                !.run = @ + 1,
                                !.photosData = loaded,
                                !.knownIds = IdSet(loaded),
                                !.files = <<>>,
                                !.i = 0,
                                !.newEntries = <<>>,
                                !.processed = 0,
                                !.skipped = 0,
                                !.before = disk.photosJson,
                                !.wrote = FALSE]
    /\ UNCHANGED <<session, gallery, disk>>

\* scan photos/uploads; exit when it holds no image
ProcScan(order) ==
    /\ proc.pc = "scan"
    /\ LET files == SelectSeq(order,
                        LAMBDA f : f \in disk.uploads /\ IsImageFile(f))
       IN  proc' = [proc EXCEPT !.files = files,
                                !.i = 1,
                                !.pc = IF files = <<>> THEN "done" ELSE "loop"]
    /\ UNCHANGED <<session, gallery, disk>>

\* the file of the iteration the loop is at, and its id
ProcFile == proc.files[proc.i]
ProcId   == Slugify(ProcFile)

ProcSkip ==
    /\ proc.pc = "loop"
    /\ proc.i <= Len(proc.files)
    /\ ProcId \in proc.knownIds
    /\ proc' = [proc EXCEPT !.skipped = @ + 1, !.i = @ + 1]
    /\ UNCHANGED <<session, gallery, disk>>

ProcAdds ==
    /\ proc.pc = "loop"
    /\ proc.i <= Len(proc.files)
    /\ ProcId \notin proc.knownIds
    /\ ProcFile \notin CorruptFiles
    /\ disk' = [disk EXCEPT !.thumbs = @ \cup {ThumbsDir \o ThumbName(ProcId)}]
    /\ proc' = [proc EXCEPT
                  !.newEntries = Append(@, StubEntry(ProcFile, ProcId)),
                  !.knownIds = AddKnown(@, ProcId),
                  !.processed = @ + 1,
                  !.i = @ + 1]
    /\ UNCHANGED <<session, gallery>>

\* sharp throws: the catch logs the failure and the loop goes on
ProcFails ==
    /\ proc.pc = "loop"
    /\ proc.i <= Len(proc.files)
    /\ ProcId \notin proc.knownIds
    /\ ProcFile \in CorruptFiles
    /\ proc' = [proc EXCEPT !.i = @ + 1]
    /\ UNCHANGED <<session, gallery, disk>>

ProcWrites ==
    /\ proc.pc = "loop"
    /\ proc.i > Len(proc.files)
    /\ Len(proc.newEntries) > 0
    /\ proc' = [proc EXCEPT !.photosData = @ \o proc.newEntries,
                            !.wrote = TRUE,
                            !.writes = @ + 1,
                            !.pc = "done"]
    /\ disk' = [disk EXCEPT !.photosJson = proc'.photosData]
    /\ UNCHANGED <<session, gallery>>

ProcNoWrite ==
    /\ proc.pc = "loop"
    /\ proc.i > Len(proc.files)
    /\ Len(proc.newEntries) = 0
    /\ proc' = [proc EXCEPT !.pc = "done"]
    /\ UNCHANGED <<session, gallery, disk>>

ProcInit ==
    /\ photos = <<>>
    /\ dirty = EmptyObj
    /\ pendingDeletes = <<>>
    /\ sha = NoSha
    /\ selected = Null
    /\ panel = "empty"
    /\ chips = <<>>
    /\ btnDisabled = TRUE
    /\ btnLabel = LabelIdle
    /\ SettingsInit
    /\ remoteManifest = InitialManifest
    /\ remoteFiles = InitialFiles
    /\ ld = IdleLd
    /\ pub = <<>>
    /\ last = NoLast
    /\ call = NoCall
    /\ hist = [events |-> 0,
               byExternal |-> FALSE, loadedIds |-> <<>>, staging |-> FALSE,
               staged |-> {}, out |-> {}, failedDeletes |-> {},
               overlap |-> FALSE]
    /\ disk \in [photosJson : ProcDocs,
                 uploads : SUBSET Range(UploadPool),
                 thumbs : {{}}]
    /\ proc = NoProc
    /\ GalleryIdle

ProcNext ==
    \/ ProcRuns
    \/ \E order \in ListingOrders : ProcScan(order)
    \/ ProcSkip
    \/ ProcAdds
    \/ ProcFails
    \/ ProcWrites
    \/ ProcNoWrite

ProcSpec == ProcInit /\ [][ProcNext]_vars

(* ------------------------------------------------------------------ *)
(* Site settings: showSettingsPanel, Cancel, saveSettings               *)
(* ------------------------------------------------------------------ *)
\* what the settings handlers leave alone but #edit-panel and the history
photoSide == <<photos, dirty, pendingDeletes, sha, selected, btnDisabled,
               btnLabel, remoteManifest, remoteFiles, ld, pub, last, call>>

CfgRunning == 1..Len(cfgRun)

\* panel.innerHTML = ... : the buttons of earlier forms are off screen
CfgOffScreen(invs) == [k \in 1..Len(invs) |-> [invs[k] EXCEPT !.btnLive = FALSE]]

CfgGetResults == {"ok", "fails"}

\* click on #settings-btn: showSettingsPanel up to its await, or all of it
\* when state.siteConfig is set
OpenSettings(g) ==
    /\ hist.events < MaxEvents
    /\ hist' = [hist EXCEPT !.events = @ + 1]
    /\ IF siteConfig = NoConfig
       THEN /\ g = "ok" => remoteConfig # CfgAbsent
            /\ cfgRun' = Append(cfgRun,
                            [NewCfgInv EXCEPT !.kind = "load", !.pc = "fetched",
                                              !.ok = (g = "ok"),
                                              !.got = remoteConfig])
            /\ UNCHANGED <<panel, chips, cfgBtnDisabled>>
       ELSE /\ g = "ok"
            /\ panel' = "settings"
            /\ chips' = <<>>
            /\ cfgBtnDisabled' = FALSE
            /\ cfgRun' = CfgOffScreen(cfgRun)
    /\ cfgLast' = [cfgLast EXCEPT !.outcome = "none"]
    /\ UNCHANGED <<photoSide, gallery, disk, proc, siteConfig, configSha, remoteConfig>>

\* showSettingsPanel after its await: lines 444-449, then the form is drawn
SettingsLoaded(k) ==
    /\ k \in CfgRunning
    /\ cfgRun[k].kind = "load"
    /\ IF cfgRun[k].ok
       THEN /\ siteConfig' = cfgRun[k].got
            /\ configSha' = ShaOf(cfgRun[k].got)
       ELSE /\ siteConfig' = DefaultConfig
            /\ configSha' = NoSha
    /\ panel' = "settings"
    /\ chips' = <<>>
    /\ cfgBtnDisabled' = FALSE
    /\ cfgRun' = CfgOffScreen(RemoveAt(cfgRun, k))
    /\ cfgLast' = [cfgLast EXCEPT !.outcome = "none", !.tag = configSha']
    /\ UNCHANGED <<photoSide, gallery, disk, proc, remoteConfig, hist>>

\* click on #cfg-cancel-btn
CancelSettings ==
    /\ panel = "settings"
    /\ hist.events < MaxEvents
    /\ hist' = [hist EXCEPT !.events = @ + 1]
    /\ siteConfig' = NoConfig
    /\ IF Len(photos) > 0 /\ selected # Null
       THEN \* renderEditPanel(state.selected)
            /\ panel' = IF GetPhoto(photos, dirty, selected) # NotFound
                        THEN selected ELSE panel
            /\ chips' = IF GetPhoto(photos, dirty, selected) # NotFound
                        THEN TagsOf(GetPhoto(photos, dirty, selected))
                        ELSE chips
       ELSE /\ panel' = "empty"
            /\ chips' = <<>>
    /\ cfgLast' = [cfgLast EXCEPT !.outcome = "none"]
    /\ UNCHANGED <<photoSide, gallery, disk, proc, configSha, cfgBtnDisabled,
                   remoteConfig, cfgRun>>

\* click on #cfg-save-btn: saveSettings up to its await
SaveSettings(form) ==
    /\ panel = "settings"
    /\ ~cfgBtnDisabled
    /\ hist.events < MaxEvents
    /\ hist' = [hist EXCEPT !.events = @ + 1]
    /\ cfgBtnDisabled' = TRUE
    /\ cfgRun' = Append(cfgRun,
                    [NewCfgInv EXCEPT !.kind = "save", !.pc = "put",
                                      !.token = CfgPutToken(configSha),
                                      !.newConfig = NewConfig(form),
                                      !.btnLive = TRUE,
                                      !.held = cfgLast.tag])
    /\ cfgLast' = [cfgLast EXCEPT !.outcome = "none"]
    /\ UNCHANGED <<photoSide, gallery, disk, proc, panel, chips, siteConfig, configSha,
                   remoteConfig>>

\* the repository handles (or never receives) the PUT of site-config.json
CfgPutServer(k, r) ==
    /\ k \in CfgRunning
    /\ cfgRun[k].kind = "save"
    /\ cfgRun[k].pc = "put"
    /\ CASE r = "ok" ->
              /\ CfgPutAccepted(cfgRun[k].token, remoteConfig)
              /\ remoteConfig' = cfgRun[k].newConfig
         [] r = "conflict" ->
              /\ ~CfgPutAccepted(cfgRun[k].token, remoteConfig)
              /\ UNCHANGED remoteConfig
         [] r = "transport" ->
              /\ UNCHANGED remoteConfig
    /\ cfgRun' = [cfgRun EXCEPT ![k].pc = "putresp", ![k].res = r,
                                ![k].seen = remoteConfig]
    /\ cfgLast' = [cfgLast EXCEPT !.outcome = "none"]
    /\ UNCHANGED <<photoSide, gallery, disk, proc, panel, chips, siteConfig, configSha,
                   cfgBtnDisabled, hist>>

\* saveSettings after its await: lines 535-537 or the catch, then finally
SaveSettles(k) ==
    /\ k \in CfgRunning
    /\ cfgRun[k].kind = "save"
    /\ cfgRun[k].pc = "putresp"
    /\ IF cfgRun[k].res = "ok"
       THEN /\ siteConfig' = cfgRun[k].newConfig
            /\ configSha' = SavedSha(configSha, cfgRun[k].newConfig)
       ELSE UNCHANGED <<siteConfig, configSha>>
    /\ cfgBtnDisabled' = IF cfgRun[k].btnLive THEN FALSE ELSE cfgBtnDisabled
    /\ cfgRun' = RemoveAt(cfgRun, k)
    /\ cfgLast' = [outcome |-> IF cfgRun[k].res = "ok" THEN "saved" ELSE "failed",
                   n |-> cfgLast.n + 1,
                   tag |-> IF cfgRun[k].res = "ok"
                           THEN ShaOf(cfgRun[k].newConfig) ELSE cfgLast.tag,
                   token |-> cfgRun[k].token,
                   held |-> cfgRun[k].held,
                   seen |-> cfgRun[k].seen,
                   written |-> IF cfgRun[k].res = "ok"
                               THEN cfgRun[k].newConfig ELSE NoConfig]
    /\ UNCHANGED <<photoSide, gallery, disk, proc, panel, chips, remoteConfig, hist>>

\* somebody else commits site-config.json
ExternalConfigWrite ==
    /\ hist.events < MaxEvents
    /\ hist' = [hist EXCEPT !.events = @ + 1]
    /\ remoteConfig # CfgExt
    /\ remoteConfig' = CfgExt
    /\ cfgLast' = [cfgLast EXCEPT !.outcome = "none"]
    /\ UNCHANGED <<photoSide, gallery, disk, proc, panel, chips, siteConfig, configSha,
                   cfgBtnDisabled, cfgRun>>

\* the session has loaded the manifest; site-config.json may be missing
CfgInit ==
    /\ photos = InitialManifest
    /\ dirty = EmptyObj
    /\ pendingDeletes = <<>>
    /\ sha = ShaOf(InitialManifest)
    /\ selected = Null
    /\ panel = "empty"
    /\ chips = <<>>
    /\ btnDisabled = UpdatePublishBtn(dirty, pendingDeletes)
    /\ btnLabel = LabelIdle
    /\ remoteManifest = InitialManifest
    /\ remoteFiles = InitialFiles
    /\ ld = IdleLd
    /\ pub = <<>>
    /\ last = NoLast
    /\ call = NoCall
    /\ hist = [events |-> 0,
               byExternal |-> FALSE, loadedIds |-> Ids(InitialManifest),
               staging |-> TRUE, staged |-> {}, out |-> {},
               failedDeletes |-> {}, overlap |-> FALSE]
    /\ disk = NoDisk
    /\ proc = NoProc
    /\ GalleryIdle
    /\ siteConfig = NoConfig
    /\ configSha = NoSha
    /\ cfgBtnDisabled = FALSE
    /\ remoteConfig \in {CfgOld, CfgAbsent}
    /\ cfgRun = <<>>
    /\ cfgLast = NoCfgLast

UserOpensSettings == \E g \in CfgGetResults : OpenSettings(g)
SettingsLoadSettles == \E k \in CfgRunning : SettingsLoaded(k)
UserSavesSettings == \E form \in FormInputs : SaveSettings(form)
CfgPutHandled == \E k \in CfgRunning, r \in PutResults : CfgPutServer(k, r)
SaveSettingsSettles == \E k \in CfgRunning : SaveSettles(k)

CfgNext ==
    \/ UserSelects
    \/ UserTypes
    \/ MarkForDelete
    \/ UserOpensSettings
    \/ SettingsLoadSettles
    \/ CancelSettings
    \/ UserSavesSettings
    \/ CfgPutHandled
    \/ SaveSettingsSettles
    \/ ExternalConfigWrite

CfgSpec == CfgInit /\ [][CfgNext]_vars

(* ------------------------------------------------------------------ *)
(* The gallery page: filters, delayed re-render, lightbox               *)
(* ------------------------------------------------------------------ *)
\* transitionGallery: the cards fade, the re-render is set for 280 ms later
TransitionGallery ==
    /\ timers < MaxTimers
    /\ timers' = timers + 1

\* click on a category pill.  The filter controls lie under the lightbox
\* while it is open.
ClickPill(cat) ==
    /\ ~lb.open
    /\ activeCategory' = cat
    /\ TransitionGallery
    /\ UNCHANGED <<session, disk, proc, galleryPhotos, filtered, activeTags, sort,
                   lb, cards>>

\* change of the tag filter
ChangeTagFilter(tags) ==
    /\ ~lb.open
    /\ activeTags' = tags
    /\ TransitionGallery
    /\ UNCHANGED <<session, disk, proc, galleryPhotos, filtered, activeCategory,
                   sort, lb, cards>>

\* change of the sort select
ChangeSort(by) ==
    /\ ~lb.open
    /\ sort' = by
    /\ TransitionGallery
    /\ UNCHANGED <<session, disk, proc, galleryPhotos, filtered, activeCategory,
                   activeTags, lb, cards>>

\* the timer of transitionGallery fires: applyFiltersAndSort, renderGallery
TimerFires ==
    /\ timers > 0
    /\ timers' = timers - 1
    /\ filtered' = ApplyFiltersAndSort(galleryPhotos, activeCategory, activeTags,
                                       sort)
    /\ cards' = Len(filtered')
    /\ UNCHANGED <<session, disk, proc, galleryPhotos, activeCategory, activeTags,
                   sort, lb>>

\* click on the card with data-index idx: openLightbox(idx).  The cards lie
\* under the lightbox while it is open.
ClickCard(idx) ==
    /\ ~lb.open
    /\ idx \in 0..(cards - 1)
    /\ lb' = [open |-> TRUE, index |-> idx]
    /\ UNCHANGED <<session, disk, proc, galleryPhotos, filtered, activeCategory,
                   activeTags, sort, cards, timers>>

\* prev / next button, arrow key or swipe: navigate(dir)
Navigate(dir) ==
    /\ lb.open
    /\ lb' = [lb EXCEPT !.index = NavigateTo(lb.index, dir, Len(filtered))]
    /\ UNCHANGED <<session, disk, proc, galleryPhotos, filtered, activeCategory,
                   activeTags, sort, cards, timers>>

CloseLightbox ==
    /\ lb.open
    /\ lb' = [lb EXCEPT !.open = FALSE]
    /\ UNCHANGED <<session, disk, proc, galleryPhotos, filtered, activeCategory,
                   activeTags, sort, cards, timers>>

\* the page after DOMContentLoaded: the photos are loaded, the gallery is
\* rendered, and handleHashOpen has opened the lightbox when the hash names
\* a photo
GalInit ==
    /\ photos = <<>>
    /\ dirty = EmptyObj
    /\ pendingDeletes = <<>>
    /\ sha = NoSha
    /\ selected = Null
    /\ panel = "empty"
    /\ chips = <<>>
    /\ btnDisabled = TRUE
    /\ btnLabel = LabelIdle
    /\ SettingsInit
    /\ remoteManifest = InitialManifest
    /\ remoteFiles = InitialFiles
    /\ ld = IdleLd
    /\ pub = <<>>
    /\ last = NoLast
    /\ call = NoCall
    /\ hist = [events |-> 0,
               byExternal |-> FALSE, loadedIds |-> <<>>, staging |-> FALSE,
               staged |-> {}, out |-> {}, failedDeletes |-> {},
               overlap |-> FALSE]
    /\ disk = NoDisk
    /\ proc = NoProc
    /\ galleryPhotos = GalleryManifest
    /\ activeCategory = AllCategories
    /\ activeTags = {}
    /\ sort = "newest"
    /\ filtered = ApplyFiltersAndSort(galleryPhotos, activeCategory, activeTags,
                                      sort)
    /\ cards = Len(filtered)
    /\ timers = 0
    /\ lb \in {[open |-> FALSE, index |-> 0]}
                \cup {[open |-> TRUE, index |-> i] : i \in 0..(Len(filtered) - 1)}

GalNext ==
    \/ \E cat \in CategoriesOf(galleryPhotos) : ClickPill(cat)
    \/ \E tags \in TagChoicesOf(galleryPhotos) : ChangeTagFilter(tags)
    \/ \E by \in SortValues : ChangeSort(by)
    \/ TimerFires
    \/ \E idx \in 0..(cards - 1) : ClickCard(idx)
    \/ \E dir \in {-1, 1} : Navigate(dir)
    \/ CloseLightbox

GalSpec == GalInit /\ [][GalNext]_vars

(* ------------------------------------------------------------------ *)
(* Properties                                                           *)
(* ------------------------------------------------------------------ *)
InSeq(r, seq) == \E i \in 1..Len(seq) : seq[i] = r

\* C1: when the manifest that the re-read of publish finds was written by
\* somebody else since the session got its version tag, the PUT of the
\* publish fails and that manifest is not overwritten.
C1_StaleManifestIsNotOverwritten ==
    \A k \in Running :
        (pub[k].pc = "putresp" /\ pub[k].stale) => pub[k].res # "ok"

\* C2: a publish that succeeds clears only what went into the manifest it
\* wrote: an overlay entry that is not in the written manifest and a staged
\* deletion of a record that is still in the written manifest (both staged
\* while the publish was in flight) are still staged afterwards.
C2_LateStagingSurvivesPublish ==
    [][ (Len(pub') < Len(pub) /\ last'.outcome = "success") =>
          /\ \A id \in DOMAIN dirty :
                ~InSeq(dirty[id], last'.written) =>
                    (id \in DOMAIN dirty' /\ dirty'[id] = dirty[id])
          /\ \A i \in 1..Len(pendingDeletes) :
                pendingDeletes[i].id \in IdSet(last'.written) =>
                    InSeq(pendingDeletes[i], pendingDeletes') ]_vars

\* C3: after a publish attempt that failed at the version re-read or at the
\* manifest write, with no other handler run since the attempt started,
\* state.photos, state.dirty and state.pendingDeletes are what they were
\* when the attempt started.
C3_FailedPublishLeavesStore ==
    (last.outcome \in {"failed_get", "failed_put"} /\ last.quiet) =>
        store = last.snap

\* a publish with a staged edit has just failed at the write with a conflict
C3_Witness ==
    /\ last.outcome = "failed_put"
    /\ last.res = "conflict"
    /\ last.quiet
    /\ DOMAIN dirty # {}

\* m is the list ph with each record replaced by its entry in d, if any
IsMergeOf(m, ph, d) ==
    /\ Len(m) = Len(ph)
    /\ \A i \in 1..Len(ph) :
          /\ ph[i].id \in DOMAIN d => m[i] = d[ph[i].id]
          /\ ph[i].id \notin DOMAIN d => m[i] = ph[i]

\* C4: the manifest a publish writes is the merge of the baseline and the
\* overlay, without the records staged for deletion; right after a
\* successful publish nothing is pending and state.photos is that merged
\* manifest and is the content the repository took.
C4_SuccessfulPublishCommitsMerged ==
    /\ \A k \in Running :
          pub[k].pc \in {"put", "putresp"} =>
              /\ IsMergeOf(pub[k].merged, pub[k].base[1], pub[k].base[2])
              /\ IdSet(pub[k].merged) \cap IdSet(pub[k].base[3]) = {}
    /\ last.outcome = "success" =>
          /\ PendingChangeCount(dirty, pendingDeletes) = 0
          /\ IsMergeOf(photos, last.base[1], last.base[2])
          /\ IdSet(photos) \cap IdSet(last.base[3]) = {}
          /\ photos = last.written

\* a publish of an edit of one record and a deletion of another succeeded
C4_Witness ==
    /\ last.outcome = "success"
    /\ DOMAIN last.base[2] # {}
    /\ last.base[3] # <<>>
    /\ photos # <<>>

\* C5: while only staging handlers have run since a load, the ids of
\* state.photos are (loaded ids + overlay keys) - staged-deletion ids, each
\* once, in the order of the loaded manifest.
C5_EffectiveIds ==
    hist.staging =>
        /\ IdSet(photos) =
              (Range(hist.loadedIds) \cup DOMAIN dirty) \ IdSet(pendingDeletes)
        /\ Ids(photos) =
              SelectSeq(hist.loadedIds, LAMBDA id : id \in IdSet(photos))

\* C6: at most one publishToGitHub is running.
C6_OnePublishAtATime == Len(pub) <= 1

\* C7: no publish attempt ends at a failure of a file deletion.
C7_DeleteFailureNeverAborts == last.outcome # "failed_delete"

\* the paths of a record that are not external URLs, src first
LocalPathsOf(photo) ==
    SelectSeq(<<photo.src, photo.thumb>>,
              LAMBDA p : p # <<>> /\ p[1] # "http")

RECURSIVE AllLocalPaths(_)
AllLocalPaths(arr) ==
    IF arr = <<>> THEN <<>>
    ELSE LocalPathsOf(Head(arr)) \o AllLocalPaths(Tail(arr))

DelCallSeq(ops) ==
    LET dels == SelectSeq(ops, LAMBDA o : o[1] = "deleteFile")
    IN  [x \in 1..Len(dels) |-> dels[x][2]]

IsPrefix(s, t) == Len(s) <= Len(t) /\ SubSeq(t, 1, Len(s)) = s

PathsOfId(id) ==
    {p \in InitialFiles :
        \E x \in 1..Len(InitialManifest) :
            InitialManifest[x].id = id
            /\ p \in {InitialManifest[x].src, InitialManifest[x].thumb}}

\* C8: the deleteFile calls of a publish are, in order, the local src and
\* thumb paths of the records of the pending-deletions array it iterates
\* (all of them once the loop is over), that array is state.pendingDeletes
\* as long as no load or publish has replaced it, and only files of records
\* that were staged for deletion are ever gone.
C8_DeletesExactlyStagedLocalPaths ==
    /\ \A k \in Running :
          /\ IsPrefix(DelCallSeq(pub[k].ops), AllLocalPaths(pub[k].arr))
          /\ pub[k].pc \in {"put", "putresp"} =>
                DelCallSeq(pub[k].ops) = AllLocalPaths(pub[k].arr)
          /\ pub[k].live => pub[k].arr = pendingDeletes
    /\ \A p \in InitialFiles \ remoteFiles :
          \E id \in hist.staged : p \in PathsOfId(id)

\* a publish of the deletion of record a (local src, external thumb) has
\* called deleteFile once, for the src, and gone on to the write
C8_Witness ==
    \E k \in Running :
        /\ pub[k].pc = "put"
        /\ pub[k].arr = <<PhotoA>>
        /\ DelCallSeq(pub[k].ops) = <<SrcA>>

\* C9: in one attempt every deleteFile comes before the getFile, the
\* getFile before the one putFile, and putFile is given the version tag
\* that getFile returned.
C9_RemoteCallOrder ==
    \A k \in Running :
        LET ops == pub[k].ops
        IN  \A y \in 1..Len(ops) :
              /\ ops[y][1] = "deleteFile" =>
                    \A x \in 1..(y - 1) : ops[x][1] = "deleteFile"
              /\ ops[y][1] = "getFile" =>
                    \A x \in 1..(y - 1) : ops[x][1] = "deleteFile"
              /\ ops[y][1] = "putFile" =>
                    /\ y > 2
                    /\ ops[y - 2][1] = "getFile"
                    /\ ops[y - 1][1] = "getFile.sha"
                    /\ ops[y][2] = ops[y - 1][2]
                    /\ y = Len(ops)

\* an attempt with a file deletion is at its write with a version tag that
\* is not the one the session holds from its load
C9_Witness ==
    \E k \in Running :
        /\ pub[k].pc = "put"
        /\ DelCalls(pub[k].ops) # {}
        /\ pub[k].token # sha

\* C10: an attempt calls deleteFile for no path that an earlier attempt,
\* failed at the manifest write, has already called it for.
C10_RetryIssuesNoDeleteAgain ==
    \A k \in Running : DelCalls(pub[k].ops) \cap pub[k].retryBase = {}

\* C11: a publish attempt that ended in failure has removed no file from the
\* repository and has not written the manifest.
C11_FailedPublishChangesNothingRemote ==
    last.outcome \in {"failed_delete", "failed_get", "failed_put"} =>
        /\ last.gone = {}
        /\ last.written = <<>>

\* C12: a click on Publish with nothing staged (no overlay entry and no
\* pending deletion) starts no attempt, makes no remote call, and leaves
\* state.photos, state.dirty, state.pendingDeletes, state.sha and the
\* repository as they are.
C12_PublishOfNothingIsNoOp ==
    [][ (call'.op = "publish" /\ PendingChangeCount(dirty, pendingDeletes) = 0) =>
          /\ call'.result = "nothing"
          /\ UNCHANGED <<photos, dirty, pendingDeletes, sha,
                         remoteManifest, remoteFiles>>
          /\ Len(pub') = Len(pub)
          /\ \A k \in Running : pub'[k].ops = pub[k].ops
          /\ last'.outcome = "none" ]_vars

\* Publish was clicked with nothing staged after a publish had succeeded
C12_Witness ==
    /\ call.op = "publish"
    /\ call.result = "nothing"
    /\ remoteManifest # InitialManifest
    /\ sha = ShaOf(remoteManifest)

EditOps == {"stageEdit", "stageTagAdd", "stageTagRemove"}

\* the record of id in the manifest the session started from
RecordOf(id) == CHOOSE r \in Range(InitialManifest) : r.id = id

\* C13: a staged edit (of a field or of the tags) of an id for which
\* getPhoto finds no record ends in an error and leaves no overlay entry
\* for that id.
C13_EditOfMissingRecordFails ==
    (call.op \in EditOps /\ ~call.found /\ call.result # "returned") =>
        /\ call.result = "threw"
        /\ call.id \notin DOMAIN dirty

\* C14: markForDelete for an id that state.photos has no record of (as it
\* is for an id that has been staged for deletion) ends in an error, and
\* adds nothing to state.pendingDeletes.
C14_DeleteOfMissingRecordFails ==
    [][ (call'.op = "stageDelete" /\ Find(photos, call'.id) = NotFound) =>
          /\ call'.result = "threw"
          /\ pendingDeletes' = pendingDeletes ]_vars

\* C15 as claimed: the record markForDelete appends to state.pendingDeletes
\* is the effective record of the id (its overlay entry if it has one), the
\* overlay entry is removed and the id is out of the effective list.
C15_DeleteSnapshotsEffectiveRecord ==
    [][ (call'.op = "stageDelete" /\ call'.result = "done") =>
          /\ pendingDeletes' =
                Append(pendingDeletes, GetPhoto(photos, dirty, call'.id))
          /\ call'.id \notin DOMAIN dirty'
          /\ call'.id \notin IdSet(Merged(photos', dirty')) ]_vars

\* C15 as amended: the record appended is the one state.photos holds for
\* the id, whether or not the id has an overlay entry; the overlay entry is
\* removed, the other entries are kept, and the id is out of state.photos
\* and of the effective list.
C15_DeleteSnapshotsBaselineRecord ==
    [][ (call'.op = "stageDelete" /\ call'.result = "done") =>
          /\ pendingDeletes' = Append(pendingDeletes, Find(photos, call'.id))
          /\ dirty' = [k \in DOMAIN dirty \ {call'.id} |-> dirty[k]]
          /\ call'.id \notin IdSet(photos')
          /\ call'.id \notin IdSet(Merged(photos', dirty')) ]_vars

\* a record with a staged edit has been staged for deletion: the record in
\* pending deletions is the one of the loaded manifest
C15_Witness ==
    /\ call.op = "stageDelete"
    /\ call.result = "done"
    /\ call.staged
    /\ \E i \in 1..Len(pendingDeletes) :
          /\ pendingDeletes[i].id = call.id
          /\ pendingDeletes[i] = RecordOf(call.id)
    /\ pub = <<>>

\* C16: a record staged for deletion since the last load and out of
\* state.photos stays out of it in every step but the completion of a load.
C16_StagedDeletionStaysOut ==
    [][ \A id \in hist.out :
          (id \notin IdSet(photos) /\ ~(ld.pc = "fetched" /\ ld'.pc = "idle"))
              => id \notin IdSet(photos') ]_vars

\* C17: Revert leaves the record of state.photos as the effective record
\* of the id, changes nothing when the id had no overlay entry, keeps the
\* other overlay entries, and leaves state.photos and state.pendingDeletes
\* alone.
C17_RevertRestoresBaseline ==
    [][ call'.op = "revert" =>
          /\ GetPhoto(photos', dirty', call'.id) = Find(photos, call'.id)
          /\ call'.id \notin DOMAIN dirty => dirty' = dirty
          /\ \A k \in DOMAIN dirty \ {call'.id} :
                k \in DOMAIN dirty' /\ dirty'[k] = dirty[k]
          /\ UNCHANGED <<photos, pendingDeletes>> ]_vars

\* Revert has run on a record with an overlay entry while a deletion was
\* staged
C17_Witness ==
    /\ call.op = "revert"
    /\ call.staged
    /\ GetPhoto(photos, dirty, call.id) = RecordOf(call.id)
    /\ pendingDeletes # <<>>

AllIds == IdSet(InitialManifest) \cup {Null}

\* C18: getPhoto(id) is the overlay entry of id if there is one, else the
\* record of id in state.photos, else nothing; and it gives a record
\* exactly for the ids of the effective list.
C18_GetPhotoMatchesEffectiveList ==
    \A id \in AllIds :
        /\ id \in DOMAIN dirty => GetPhoto(photos, dirty, id) = dirty[id]
        /\ (id \notin DOMAIN dirty /\ id \in IdSet(photos)) =>
              InSeq(GetPhoto(photos, dirty, id), photos)
        /\ (GetPhoto(photos, dirty, id) # NotFound) <=>
              id \in IdSet(Merged(photos, dirty))

\* C19: every overlay entry is a complete record: it has every field of a
\* photo record, and the id, src and thumb of the record it overlays.
C19_OverlayEntriesAreComplete ==
    \A id \in DOMAIN dirty :
        /\ DOMAIN dirty[id] = DOMAIN PhotoA
        /\ id \in IdSet(InitialManifest)
        /\ dirty[id].id = id
        /\ dirty[id].src = RecordOf(id).src
        /\ dirty[id].thumb = RecordOf(id).thumb

\* C20: the count of pending changes is the number of records with a
\* pending change: a record edited several times, or edited and then
\* staged for deletion, counts once.
C20_CountIsOnePerRecord ==
    PendingChangeCount(dirty, pendingDeletes) =
        Cardinality(DOMAIN dirty \cup IdSet(pendingDeletes))

\* a record with an overlay entry has been staged for deletion, and that
\* is the one pending change
C20_Witness ==
    /\ call.op = "stageDelete"
    /\ call.result = "done"
    /\ call.staged
    /\ PendingChangeCount(dirty, pendingDeletes) = 1

\* the words of a text: its maximal runs of characters that are not white
\* space, in order
RECURSIVE WordsFrom(_, _, _)
WordsFrom(s, word, words) ==
    IF s = <<>>
    THEN IF word = <<>> THEN words ELSE Append(words, word)
    ELSE IF Head(s) = " "
    THEN WordsFrom(Tail(s), <<>>,
                   IF word = <<>> THEN words ELSE Append(words, word))
    ELSE WordsFrom(Tail(s), Append(word, Head(s)), words)

RECURSIVE JoinHyphen(_)
JoinHyphen(words) ==
    IF words = <<>> THEN <<>>
    ELSE IF Len(words) = 1 THEN words[1]
    ELSE words[1] \o <<"-">> \o JoinHyphen(Tail(words))

\* the normal form of a raw tag as the spec describes it: the words of the
\* text in lower case, joined by single hyphens
NormalForm(raw) ==
    JoinHyphen(WordsFrom([i \in 1..Len(raw) |->
                            IF raw[i] = "T" THEN "t" ELSE raw[i]], <<>>, <<>>))

Occurrences(x, list) == Cardinality({i \in 1..Len(list) : list[i] = x})

\* C21: addTag(raw) on a record: when the normal form of raw is empty
\* nothing is staged; otherwise the tags of the record afterwards hold the
\* normal form exactly once, and they are the tags it had plus that one
\* (the same set when it was already among them).
C21_AddTagNormalizesAndDedupes ==
    [][ (call'.op = "stageTagAdd" /\ call'.found) =>
          LET tag    == NormalForm(call'.arg)
              before == TagsOf(GetPhoto(photos, dirty, call'.id))
              after  == TagsOf(GetPhoto(photos', dirty', call'.id))
          IN  IF tag = <<>>
              THEN call'.result = "returned" /\ dirty' = dirty
              ELSE /\ call'.result = "done"
                   /\ Occurrences(tag, after) = 1
                   /\ Range(after) = Range(before) \cup {tag}
                   /\ tag \in Range(before) =>
                         Cardinality(Range(after)) = Cardinality(Range(before)) ]_vars

\* a text with outer white space, capitals and a run of two inner spaces
\* was added to a record as the tag t-t
C21_Witness ==
    /\ call.op = "stageTagAdd"
    /\ call.arg = <<"T", " ", " ", "T">>
    /\ call.result = "done"
    /\ Occurrences(<<"t", "-", "t">>, TagsOf(GetPhoto(photos, dirty, call.id))) = 1

\* C22: a load that succeeds makes the fetched manifest the baseline and
\* its version tag state.sha and leaves state.dirty and
\* state.pendingDeletes empty; a load that fails at ghGetFile leaves all
\* four as they were.
C22_LoadReplacesOrLeaves ==
    [][ call'.op = "load" =>
          /\ call'.result = "done" =>
                /\ photos' = ld.content
                /\ sha' = ShaOf(ld.content)
                /\ dirty' = EmptyObj
                /\ pendingDeletes' = <<>>
          /\ call'.result = "failed_get" =>
                UNCHANGED <<photos, dirty, pendingDeletes, sha>> ]_vars

\* a Refresh has succeeded after a deletion had been staged and never
\* published: the record is back and nothing is pending
C22_Witness ==
    /\ call.op = "load"
    /\ call.result = "done"
    /\ hist.staged # {}
    /\ remoteManifest = InitialManifest
    /\ photos = InitialManifest
    /\ PendingChangeCount(dirty, pendingDeletes) = 0

\* C23: after a load of a photos.json content that is no manifest document
\* state.photos is the empty list and state.dirty and state.pendingDeletes
\* are empty.
C23_MalformedLoadsAsNoPhotos ==
    (call.op = "load" /\ call.arg \in {MalformedDoc, DocWithoutPhotos}) =>
        /\ photos = <<>>
        /\ dirty = EmptyObj
        /\ pendingDeletes = <<>>

Outcomes == {"success", "failed_delete", "failed_get", "failed_put"}

\* C24: every step that ends a publish attempt ends one attempt and reports
\* one outcome for it, success or failure; a new outcome is reported only
\* by such a step; and success is reported only for an attempt whose PUT the
\* repository took, with state.photos the content written.
C24_EveryAttemptReportsOneOutcome ==
    [][ /\ Len(pub') < Len(pub) =>
              /\ Len(pub') = Len(pub) - 1
              /\ last'.outcome \in Outcomes
        /\ (call'.op = "publish" /\ call'.result = "started") =>
              \/ Len(pub') = Len(pub) + 1 /\ last'.outcome = "none"
              \/ Len(pub') = Len(pub) /\ last'.outcome \in Outcomes \ {"success"}
        /\ (last'.outcome # "none" /\ last' # last) =>
              \/ Len(pub') < Len(pub)
              \/ call'.op = "publish" /\ call'.result = "started"
        /\ last'.outcome = "success" =>
              /\ last'.res = "ok"
              /\ photos' = last'.written ]_vars

\* an attempt has ended at a ghDeleteFile that threw, reported as a failure
C24_Witness ==
    /\ last.outcome = "failed_delete"
    /\ pub = <<>>
    /\ ~btnDisabled

DistinctIds(list) ==
    \A i, j \in 1..Len(list) : list[i].id = list[j].id => i = j

\* C26: the manifest a publish hands to ghPutFile has pairwise distinct ids
\* and, position by position, the ids of state.photos as it was at the
\* merge.
C26_PublishKeepsIdsUnique ==
    \A k \in Running :
        pub[k].pc \in {"put", "putresp"} =>
            /\ Len(pub[k].merged) = Len(pub[k].base[1])
            /\ \A i \in 1..Len(pub[k].merged) :
                  /\ "id" \in DOMAIN pub[k].merged[i]
                  /\ pub[k].merged[i].id = pub[k].base[1][i].id
            /\ DistinctIds(pub[k].merged)

\* a manifest of two records, one of them taken from the overlay, is
\* being written
C26_Witness ==
    \E k \in Running :
        /\ pub[k].pc = "put"
        /\ Len(pub[k].merged) = 2
        /\ \E i \in 1..2 : pub[k].merged[i] # pub[k].base[1][i]

\* C27: a staging handler (field edit, tag edit, deletion, revert) makes
\* no remote call and leaves state.sha alone; the edits and the revert
\* also leave state.photos and state.pendingDeletes alone and change no
\* overlay entry but that of the selected id.
C27_StagingFrame ==
    [][ call'.op \in EditOps \cup {"stageDelete", "revert"} =>
          /\ UNCHANGED <<sha, remoteManifest, remoteFiles, ld>>
          /\ Len(pub') = Len(pub)
          /\ \A k \in Running : pub'[k].ops = pub[k].ops /\ pub'[k].pc = pub[k].pc
          /\ call'.op # "stageDelete" =>
                /\ UNCHANGED <<photos, pendingDeletes>>
                /\ call'.id = selected
                /\ \A k \in (DOMAIN dirty \cup DOMAIN dirty') \ {call'.id} :
                      /\ k \in DOMAIN dirty \cap DOMAIN dirty'
                      /\ dirty'[k] = dirty[k] ]_vars

\* a record has been edited while the other one had an overlay entry and
\* a publish was awaiting its PUT
C27_Witness ==
    /\ call.op \in EditOps
    /\ call.result = "done"
    /\ Cardinality(DOMAIN dirty) = 2
    /\ \E k \in Running : pub[k].pc = "put"

\* C28: every key of state.dirty is the id of a record of state.photos.
C28_OverlayKeysAreBaselineIds == DOMAIN dirty \subseteq IdSet(photos)

\* C29: no id is both in state.photos and in state.pendingDeletes, no id of
\* state.pendingDeletes has an overlay entry, and state.pendingDeletes
\* holds no id twice.
C29_IdSetsAreConsistent ==
    /\ IdSet(photos) \cap IdSet(pendingDeletes) = {}
    /\ IdSet(pendingDeletes) \cap DOMAIN dirty = {}
    /\ DistinctIds(pendingDeletes)

\* a record with an overlay entry has been staged for deletion while the
\* other record has an overlay entry
C29_Witness ==
    /\ call.op = "stageDelete"
    /\ call.result = "done"
    /\ call.staged
    /\ DOMAIN dirty # {}
    /\ photos # <<>>

\* C30: when a Refresh and a publish have been running at the same time,
\* then at the step that completes the last of them state.photos is the
\* manifest in the repository.
C30_RefreshAndPublishAgree ==
    [][ (hist.overlap /\ ~Quiescent(pub, ld) /\ Quiescent(pub', ld')) =>
          photos' = remoteManifest' ]_vars

\* C31: once the session has loaded, whenever no publishToGitHub is running
\* the publish button is enabled exactly when the pending change count is
\* above zero.
C31_ButtonFollowsPendingCount ==
    (sha # NoSha /\ pub = <<>>) =>
        (~btnDisabled <=> PendingChangeCount(dirty, pendingDeletes) > 0)

\* C31, its particular case: right after a successful publish that left no
\* pending change the button is disabled.
C31_DisabledAfterCleanPublish ==
    (last.outcome = "success" /\ pub = <<>>
       /\ PendingChangeCount(dirty, pendingDeletes) = 0) => btnDisabled

\* C32: when every remote call is answered or fails, a running
\* publishToGitHub leads to a state where none is running, the last one to
\* end has reported success or failure, and the publish button is enabled
\* with its idle label.
C32_PublishTerminates ==
    (pub # <<>>) ~>
        /\ pub = <<>>
        /\ last.outcome \in Outcomes
        /\ ~btnDisabled
        /\ btnLabel = LabelIdle

\* a publish has ended at a DELETE that threw, and another at a PUT that was
\* refused
C32_Witness ==
    /\ pub = <<>>
    /\ last.outcome = "failed_put"
    /\ last.res = "conflict"
    /\ hist.failedDeletes # {}
    /\ btnLabel = LabelIdle
    /\ ~btnDisabled

\* C33: state.configSha is the sha the last load or save of the settings
\* obtained; a saveSettings whose PUT finds site-config.json different from
\* the content that sha belongs to fails; a failed save leaves
\* state.siteConfig and state.configSha as they are; a successful one sets
\* them to the content the repository took and to its sha; neither changes
\* state.photos, state.dirty or state.pendingDeletes.
C33_SaveIsConditionedOnConfigSha ==
    [][ /\ configSha' = cfgLast'.tag
        /\ cfgLast'.n = cfgLast.n + 1 =>
              /\ UNCHANGED store
              /\ cfgLast'.token = cfgLast'.held
              /\ ~CfgPutAccepted(cfgLast'.held, cfgLast'.seen)
                    => cfgLast'.outcome = "failed"
              /\ cfgLast'.outcome = "failed" =>
                    UNCHANGED <<siteConfig, configSha, remoteConfig>>
              /\ cfgLast'.outcome = "saved" =>
                    /\ siteConfig' = cfgLast'.written
                    /\ configSha' = ShaOf(cfgLast'.written)
                    /\ cfgLast'.written \in {NewConfig(f) : f \in FormInputs} ]_vars

\* a save has failed because somebody else had written site-config.json
\* since it was loaded, with photo changes staged
C33_Witness ==
    /\ cfgLast.outcome = "failed"
    /\ cfgLast.seen = CfgExt
    /\ cfgLast.held = ShaOf(CfgOld)
    /\ siteConfig = CfgOld
    /\ dirty # EmptyObj

\* C34: whenever the lightbox of the gallery is open, its index is a
\* position of state.filtered: 0 <= lb.index < filtered.length.
C34_LightboxIndexInRange ==
    lb.open => (0 <= lb.index /\ lb.index < Len(filtered))

====
